---- MODULE Spec2Model ----
(***************************************************************************)
(* Model of the semantic clustering pipeline of AbstructionAI:             *)
(*   src/cluster_questions_realtime.py  main() and its helper functions    *)
(*   src/backfill_embeddings.py         the embedding backfill script      *)
(* The state is the two store tables (interactions, semantic_clusters),    *)
(* the locals of the run of main() in progress, and history variables      *)
(* that record what the runs did.                                          *)
(***************************************************************************)
EXTENDS Integers, Sequences, FiniteSets, TLC

\* ------------------------------------------------------------------ bounds
NumRecords == 3      \* rows of the interactions table
MaxRuns == 2         \* runs of main() in one behaviour
MaxPoints == 60      \* largest working-set size fed to the sizing rule

\* --------------------------------------------------------------- constants
CLUSTERING_VERSION == "v1-hdbscan-202406"
NoVersion == "NULL"          \* SQL NULL in the clustering_version column
None == <<>>                 \* SQL NULL / Python None in the cluster_id column
Some(x) == <<x>>             \* a non-null cluster_id
NOISE == 0 - 1               \* the label HDBSCAN gives to noise points

Ids == 1..NumRecords

\* ------------------------------------------------- stored embedding values
\* A stored embedding is null, a text, or a native list.
NullE == [t |-> "null", s |-> "", v |-> <<>>]
StrE(text) == [t |-> "str", s |-> text, v |-> <<>>]
ListE(vec) == [t |-> "list", s |-> "", v |-> vec]

Texts == {"", "None", "oops", "[]", "7", "[1]", "[1,1]"}

EmbeddingValues ==
    {NullE, ListE(<<>>), ListE(<<3>>)} \cup {StrE(x) : x \in Texts}

\* The first row starts with any of the stored forms, among them no
\* embedding yet (the row the backfill script will embed); the other rows
\* start with unparsable text, a vector as text, a vector as list, or a
\* longer vector.
CommonValues == {StrE("oops"), StrE("[1]"), ListE(<<3>>), StrE("[1,1]")}

InitialValues(id) == IF id = 1 THEN EmbeddingValues ELSE CommonValues

\* json.loads on the texts above: it raises on text that is no JSON document,
\* and otherwise returns the decoded value (a list or a number).
JsonLoads(text) ==
    CASE text = "[]"    -> [ok |-> TRUE, isList |-> TRUE, val |-> <<>>]
      [] text = "[1]"   -> [ok |-> TRUE, isList |-> TRUE, val |-> <<1>>]
      [] text = "[1,1]" -> [ok |-> TRUE, isList |-> TRUE, val |-> <<1, 1>>]
      [] text = "7"     -> [ok |-> TRUE, isList |-> FALSE, val |-> <<>>]
      [] OTHER          -> [ok |-> FALSE, isList |-> FALSE, val |-> <<>>]

VARIABLES
    interactions,        \* store table: id -> row
    semantic_clusters,   \* store table: set of summaries, unique by id
    pc,                  \* position of the run of main() in progress
    full_recluster,      \* args.full_recluster of the run
    response,            \* response.data: the rows the store returned
    valid_interactions,  \* rows that passed the embedding filter
    n_points,            \* len(X)
    min_cluster_size,    \* the parameter handed to HDBSCAN
    labels,              \* labels[i]: label of valid_interactions[i]
    row,                 \* index of the next row of the update loop
    cluster_summaries,   \* summaries computed by the run
    error,               \* where the run raised, or "none"
    run_no,              \* history: number of runs started
    before,              \* history: interactions when the run started
    clusters_before,     \* history: semantic_clusters when the run started
    updated,             \* history: ids the run has updated
    upserted,            \* history: the run's upsert was executed
    hdbscan_called,      \* history: the run invoked the clusterer
    some_run_raised,     \* history: a run has ended by an exception
    fit_history          \* history: what fit_predict returned for each input

vars == <<interactions, semantic_clusters, pc, full_recluster, response,
          valid_interactions, n_points, min_cluster_size, labels, row,
          cluster_summaries, error, run_no, before, clusters_before, updated,
          upserted, hdbscan_called, some_run_raised,
          fit_history>>

store == <<interactions, semantic_clusters>>
locals == <<response, valid_interactions, n_points, min_cluster_size, labels,
            row, cluster_summaries>>
history == <<updated, upserted, hdbscan_called>>
runvars == <<full_recluster, run_no, before, clusters_before>>

\* ------------------------------------------------------------ the selector
Rows == [i \in Ids |-> [id |-> i, embedding |-> interactions[i].embedding]]

\* Mutant: the mode flag is ignored and every row is fetched.
Select_IgnoresMode(full) == Rows

Select(full) ==
    IF full
    THEN Rows
    ELSE SelectSeq(Rows, LAMBDA r : interactions[r.id].cluster_id = None)

\* ----------------------------------------------------------- the validator
\* Mutant: any text that decodes is accepted, list or not, empty or not.
IsValidEmbedding_AnyJson(e) ==
    /\ e.t # "null"
    /\ e # StrE("None")
    /\ e # StrE("")
    /\ IF e.t = "str"
       THEN JsonLoads(e.s).ok
       ELSE e.t = "list" /\ Len(e.v) > 0

IsValidEmbedding(e) ==
    /\ e.t # "null"
    /\ e # StrE("None")
    /\ e # StrE("")
    /\ IF e.t = "str"
       THEN /\ JsonLoads(e.s).ok
            /\ JsonLoads(e.s).isList
            /\ Len(JsonLoads(e.s).val) > 0
       ELSE e.t = "list" /\ Len(e.v) > 0

\* Mutant: the early returns are missing.
NothingToDo_Never(rows) == FALSE

NothingToDo(rows) == Len(rows) = 0

\* -------------------------------------------------------------- clustering
Vector(e) == IF e.t = "str" THEN JsonLoads(e.s).val ELSE e.v

X == [i \in 1..Len(valid_interactions) |-> Vector(valid_interactions[i].embedding)]

\* Mutant: rows of different lengths are clustered all the same.
Homogeneous_Unchecked(m) == TRUE

Homogeneous(m) == \A i, j \in 1..Len(m) : Len(m[i]) = Len(m[j])

Max(a, b) == IF a >= b THEN a ELSE b

MinClusterSize(n) == IF n < 10 THEN 2 ELSE Max(2, n \div 10)

RunHdbscanMinClusterSize(n) == Max(5, n \div 100)

Members(lab, c) == {i \in 1..Len(lab) : lab[i] = c}

UniqueLabels(lab) == {lab[i] : i \in 1..Len(lab)}

\* What fit_predict may return for n points: every point is noise or in one of
\* the clusters 0..k-1, and no cluster is smaller than min_cluster_size.
Labelings(n, mcs) ==
    {lab \in [1..n -> NOISE..((n \div mcs) - 1)] :
        \A c \in 0..((n \div mcs) - 1) :
            \/ Cardinality(Members(lab, c)) >= mcs
            \/ \A d \in c..((n \div mcs) - 1) : Members(lab, d) = {}}

\* ------------------------------------------------------------- summarizing
\* Exact rationals <<numerator, denominator>> in lowest terms stand for the
\* floating-point components of a centroid.
RECURSIVE Gcd(_, _)
Gcd(a, b) == IF b = 0 THEN a ELSE Gcd(b, a % b)

Rational(num, den) == <<num \div Gcd(num, den), den \div Gcd(num, den)>>

RECURSIVE ColumnSum(_, _, _)
ColumnSum(m, S, j) ==
    IF S = {}
    THEN 0
    ELSE LET i == CHOOSE x \in S : TRUE
         IN  m[i][j] + ColumnSum(m, S \ {i}, j)

\* np.mean(m[S], axis=0)
Mean(m, S) ==
    [j \in 1..Len(m[CHOOSE i \in S : TRUE]) |->
        Rational(ColumnSum(m, S, j), Cardinality(S))]

Summaries(m, lab) ==
    {[id |-> c,
      size |-> Cardinality(Members(lab, c)),
      centroid |-> Mean(m, Members(lab, c)),
      clustering_version |-> CLUSTERING_VERSION] :
        c \in UniqueLabels(lab) \ {NOISE}}

\* ------------------------------------------------------------- persistence
\* Mutant: the noise label is stored as the cluster_id instead of null.
UpdateData_KeepsNoiseLabel(label) ==
    [cluster_id |-> Some(label),
     clustering_version |-> CLUSTERING_VERSION,
     is_noise |-> (label = NOISE)]

UpdateData(label) ==
    [cluster_id |-> IF label = NOISE THEN None ELSE Some(label),
     clustering_version |-> CLUSTERING_VERSION,
     is_noise |-> (label = NOISE)]

\* table.update(data).eq("id", id)
Update(table, id, data) ==
    [table EXCEPT ![id] = [embedding |-> @.embedding,
                           cluster_id |-> data.cluster_id,
                           is_noise |-> data.is_noise,
                           clustering_version |-> data.clustering_version]]

\* table.upsert(rows): insert if absent, overwrite the row with the same id
Upsert(table, rows) ==
    {s \in table : \A r \in rows : r.id # s.id} \cup rows

\* ------------------------------------------------------------------- state
NewRow(e) ==
    [embedding |-> e, cluster_id |-> None, is_noise |-> FALSE,
     clustering_version |-> NoVersion]

Init ==
    /\ interactions \in [Ids -> {NewRow(e) : e \in EmbeddingValues}]
    /\ \A id \in Ids : interactions[id].embedding \in InitialValues(id)
    /\ semantic_clusters = {}
    /\ pc = "idle"
    /\ full_recluster = FALSE
    /\ response = <<>>
    /\ valid_interactions = <<>>
    /\ n_points = 0
    /\ min_cluster_size = 0
    /\ labels = <<>>
    /\ row = 1
    /\ cluster_summaries = {}
    /\ error = "none"
    /\ run_no = 0
    /\ before = interactions
    /\ clusters_before = semantic_clusters
    /\ updated = {}
    /\ upserted = FALSE
    /\ hdbscan_called = FALSE
    /\ some_run_raised = FALSE
    /\ fit_history = {}

\* The run raised at `where`: the handler prints and re-raises, the run ends.
Raise(where) ==
    /\ error' = where
    /\ pc' = "idle"
    /\ some_run_raised' = TRUE

\* main() is started and asks the store for the rows of its mode.
Fetch(full) ==
    /\ pc = "idle"
    /\ run_no < MaxRuns
    /\ run_no' = run_no + 1
    /\ full_recluster' = full
    /\ before' = interactions
    /\ clusters_before' = semantic_clusters
    /\ valid_interactions' = <<>>
    /\ n_points' = 0
    /\ min_cluster_size' = 0
    /\ labels' = <<>>
    /\ row' = 1
    /\ cluster_summaries' = {}
    /\ updated' = {}
    /\ upserted' = FALSE
    /\ hdbscan_called' = FALSE
    /\ \/ /\ response' = Select(full)
          /\ error' = "none"
          /\ pc' = "validate"
          /\ UNCHANGED some_run_raised
       \/ /\ response' = <<>>
          /\ Raise("fetch")
    /\ UNCHANGED <<store, fit_history>>

\* The two early returns and the filter on the embedding.
Validate ==
    /\ pc = "validate"
    /\ IF NothingToDo(response)
       THEN /\ pc' = "idle"
            /\ UNCHANGED valid_interactions
       ELSE /\ valid_interactions' = SelectSeq(response, LAMBDA r : IsValidEmbedding(r.embedding))
            /\ pc' = IF NothingToDo(valid_interactions') THEN "idle" ELSE "cluster"
    /\ UNCHANGED <<store, runvars, history, response, n_points,
                   min_cluster_size, labels, row, cluster_summaries, error,
                   some_run_raised, fit_history>>

\* fit_predict either raises or returns labels, and it is a function of its
\* input: what it did for a matrix before, it does again.
FitRaises == [raised |-> TRUE, labels |-> <<>>]
FitReturns(lab) == [raised |-> FALSE, labels |-> lab]

FitPredict(m, mcs) ==
    IF \E h \in fit_history : h.x = m
    THEN {h.out : h \in {g \in fit_history : g.x = m}}
    ELSE {FitRaises} \cup {FitReturns(lab) : lab \in Labelings(Len(m), mcs)}

\* X is built, the parameter chosen and HDBSCAN invoked; a matrix whose rows
\* differ in length makes numpy or the clusterer raise.
Cluster ==
    /\ pc = "cluster"
    /\ n_points' = Len(X)
    /\ min_cluster_size' = MinClusterSize(Len(X))
    /\ hdbscan_called' = TRUE
    /\ \/ /\ ~Homogeneous(X)
          /\ Raise("cluster")
          /\ UNCHANGED <<labels, fit_history>>
       \/ /\ Homogeneous(X)
          /\ \E out \in FitPredict(X, MinClusterSize(Len(X))) :
                 /\ fit_history' = fit_history \cup {[x |-> X, out |-> out]}
                 /\ IF out.raised
                    THEN /\ Raise("cluster")
                         /\ UNCHANGED labels
                    ELSE /\ labels' = out.labels
                         /\ pc' = "update"
                         /\ UNCHANGED <<error, some_run_raised>>
    /\ UNCHANGED <<store, runvars, updated, upserted, response,
                   valid_interactions, row, cluster_summaries>>

\* One iteration of the loop over df.iterrows(): the store call returns or
\* raises, and nothing around it catches.
UpdateRow ==
    /\ pc = "update"
    /\ \/ /\ interactions' = Update(interactions, valid_interactions[row].id,
                                    UpdateData(labels[row]))
          /\ updated' = updated \cup {valid_interactions[row].id}
          /\ row' = row + 1
          /\ pc' = IF row = Len(valid_interactions) THEN "summarize" ELSE "update"
          /\ UNCHANGED <<error, some_run_raised>>
       \/ /\ Raise("update")
          /\ UNCHANGED <<interactions, updated, row>>
    /\ UNCHANGED <<semantic_clusters, runvars, upserted,
                   hdbscan_called, response, valid_interactions, n_points,
                   min_cluster_size, labels, cluster_summaries, fit_history>>

\* The summaries are computed from X and labels and upserted in one call,
\* which is skipped when there is no cluster.
SummarizeAndUpsert ==
    /\ pc = "summarize"
    /\ cluster_summaries' = Summaries(X, labels)
    /\ \/ /\ cluster_summaries' # {}
          /\ semantic_clusters' = Upsert(semantic_clusters, cluster_summaries')
          /\ upserted' = TRUE
          /\ pc' = "export"
          /\ UNCHANGED <<error, some_run_raised>>
       \/ /\ cluster_summaries' = {}
          /\ pc' = "export"
          /\ UNCHANGED <<semantic_clusters, upserted, error, some_run_raised>>
       \/ /\ cluster_summaries' # {}
          /\ Raise("upsert")
          /\ UNCHANGED <<semantic_clusters, upserted>>
    /\ UNCHANGED <<interactions, runvars, updated, hdbscan_called,
                   response, valid_interactions, n_points, min_cluster_size,
                   labels, row, fit_history>>

\* The summary is written to the export file; open() or json.dump may raise.
Export ==
    /\ pc = "export"
    /\ \/ /\ pc' = "idle"
          /\ UNCHANGED <<error, some_run_raised>>
       \/ Raise("export")
    /\ UNCHANGED <<store, runvars, history, locals, fit_history>>

\* One iteration of the backfill script: a row without embedding gets the
\* vector the embedding service returned, as a native list.
BackfillVector == <<3>>

Backfill(id) ==
    /\ interactions[id].embedding = NullE
    /\ interactions' = [interactions EXCEPT ![id].embedding = ListE(BackfillVector)]
    /\ UNCHANGED <<semantic_clusters, pc, runvars,
                   history, locals, error, some_run_raised, fit_history>>

Next ==
    \/ \E full \in BOOLEAN : Fetch(full)
    \/ Validate
    \/ Cluster
    \/ UpdateRow
    \/ SummarizeAndUpsert
    \/ Export
    \/ \E id \in Ids : Backfill(id)

Spec == Init /\ [][Next]_vars

\* --------------------------------------------------- the sizing rule alone
\* The two places that choose min_cluster_size, applied to every working-set
\* size up to MaxPoints.
InitSizing ==
    /\ interactions = [i \in Ids |-> NewRow(NullE)]
    /\ semantic_clusters = {}
    /\ pc = "sizing"
    /\ full_recluster = FALSE
    /\ response = <<>>
    /\ valid_interactions = <<>>
    /\ n_points \in 1..MaxPoints
    /\ min_cluster_size = 0
    /\ labels = <<>>
    /\ row = 1
    /\ cluster_summaries = {}
    /\ error = "none"
    /\ run_no = 0
    /\ before = interactions
    /\ clusters_before = semantic_clusters
    /\ updated = {}
    /\ upserted = FALSE
    /\ hdbscan_called = FALSE
    /\ some_run_raised = FALSE
    /\ fit_history = {}

SizeInMain ==
    /\ pc = "sizing"
    /\ min_cluster_size' = MinClusterSize(n_points)
    /\ pc' = "sized_main"
    /\ UNCHANGED <<store, runvars, history, response, valid_interactions,
                   n_points, labels, row, cluster_summaries, error,
                   some_run_raised, fit_history>>

SizeInRunHdbscan ==
    /\ pc = "sizing"
    /\ min_cluster_size' = RunHdbscanMinClusterSize(n_points)
    /\ pc' = "sized_run_hdbscan"
    /\ UNCHANGED <<store, runvars, history, response, valid_interactions,
                   n_points, labels, row, cluster_summaries, error,
                   some_run_raised, fit_history>>

NextSizing ==
    \/ SizeInMain
    \/ SizeInRunHdbscan

SpecSizing == InitSizing /\ [][NextSizing]_vars

\* ================================================================== claims
ClusterFields(r) == <<r.cluster_id, r.is_noise, r.clustering_version>>

Untouched(id) == ClusterFields(interactions[id]) = ClusterFields(before[id])

\* ---------------------------------------------------------------------- C1
StoredVectors == [id \in Ids |-> Vector(interactions[id].embedding)]

MembersInStore(s) ==
    {id \in Ids : /\ interactions[id].cluster_id = Some(s.id)
                  /\ interactions[id].clustering_version = s.clustering_version}

\* C1: between runs, and with no run so far ended by an exception, every
\* summary in the store has as centroid the element-wise mean of the
\* embeddings of exactly the records that carry its id and its version, and
\* as size the number of those records.
C1_CentroidIsMeanOfMembers ==
    (pc = "idle" /\ ~some_run_raised) =>
        \A s \in semantic_clusters :
            /\ MembersInStore(s) # {}
            /\ s.size = Cardinality(MembersInStore(s))
            /\ \A a, b \in MembersInStore(s) :
                   Len(StoredVectors[a]) = Len(StoredVectors[b])
            /\ s.centroid = Mean(StoredVectors, MembersInStore(s))

\* ---------------------------------------------------------------------- C2
\* C2: with no run so far ended by an exception, the rows an incremental run
\* selects had cluster_id null and is_noise false when the run started, and a
\* row that was noise then is not updated by the run.
C2_NoiseNeverReselected ==
    (run_no >= 1 /\ ~full_recluster /\ ~some_run_raised) =>
        /\ \A i \in 1..Len(response) :
               /\ before[response[i].id].cluster_id = None
               /\ ~before[response[i].id].is_noise
        /\ \A id \in Ids : before[id].is_noise => id \notin updated

\* ---------------------------------------------------------------------- C3
\* C3: a run in which the update of one row raised has still updated every
\* other row of its working set and upserted the summaries of its clusters.
C3_UpdateFailureDoesNotAbort ==
    error = "update" =>
        /\ \A i \in 1..Len(valid_interactions) :
               i # row => valid_interactions[i].id \in updated
        /\ upserted \/ Summaries(X, labels) = {}

\* ---------------------------------------------------------------------- C4
\* C4: every row has is_noise only with a null cluster_id and a cluster_id
\* only with is_noise false, in every reachable state; and a row the run has
\* updated has is_noise exactly when its cluster_id is null.
C4_NoiseExclusive ==
    \A id \in Ids :
        /\ interactions[id].is_noise => interactions[id].cluster_id = None
        /\ interactions[id].cluster_id # None => ~interactions[id].is_noise
        /\ id \in updated =>
               (interactions[id].is_noise <=> interactions[id].cluster_id = None)

C4_Witness ==
    /\ error = "update"
    /\ \E a, b \in updated :
           /\ interactions[a].is_noise
           /\ interactions[b].cluster_id # None

\* ---------------------------------------------------------------------- C5
\* C5: during and after an incremental run, every row whose cluster_id was
\* non-null when the run started has the cluster_id, is_noise and
\* clustering_version it had then.
C5_IncrementalScope ==
    (run_no >= 1 /\ ~full_recluster) =>
        \A id \in Ids : before[id].cluster_id # None => Untouched(id)

C5_Witness ==
    /\ run_no = 2
    /\ ~full_recluster
    /\ pc = "idle"
    /\ error = "none"
    /\ updated # {}
    /\ \E id \in Ids : before[id].cluster_id # None

\* ---------------------------------------------------------------------- C6
\* A row the run in progress has not updated and that carries a tag was last
\* written by an earlier run; a summary in the store that the run did not
\* upsert was written by an earlier run.
WrittenByEarlierRun(id) ==
    id \notin updated /\ interactions[id].clustering_version # NoVersion

UpsertedByEarlierRun(s) == ~(upserted /\ s \in cluster_summaries)

\* C6: between runs, and with no run so far ended by an exception, what the
\* last run wrote shares its version tag with nothing an earlier run wrote:
\* not a row with a row, not a summary with a summary, not a row with a
\* summary.
C6_VersionIdentifiesOneRun ==
    (pc # "idle" \/ some_run_raised) \/
    /\ \A a \in updated : \A b \in Ids :
           WrittenByEarlierRun(b) =>
               interactions[a].clustering_version # interactions[b].clustering_version
    /\ \A s, t \in semantic_clusters :
           (~UpsertedByEarlierRun(s) /\ UpsertedByEarlierRun(t)) =>
               s.clustering_version # t.clustering_version
    /\ \A a \in updated : \A t \in semantic_clusters :
           UpsertedByEarlierRun(t) =>
               interactions[a].clustering_version # t.clustering_version

\* ---------------------------------------------------------------------- C7
\* The stored values the claim names: null, "", "None", and text that does
\* not decode to a non-empty list.
Rejected(e) ==
    \/ e = NullE
    \/ e = StrE("")
    \/ e = StrE("None")
    \/ /\ e.t = "str"
       /\ ~(JsonLoads(e.s).ok /\ JsonLoads(e.s).isList /\ JsonLoads(e.s).val # <<>>)

InWorkingSet(id) ==
    \E k \in 1..Len(valid_interactions) : valid_interactions[k].id = id

\* C7: a fetched row whose embedding is one of the rejected values is not in
\* the working set, is not updated by the run and keeps its cluster fields;
\* and once the filter has run, every fetched row with a non-empty vector is
\* in the working set, whatever was rejected beside it.
C7_ValidatorRejection ==
    \A i \in 1..Len(response) :
        /\ Rejected(response[i].embedding) =>
               /\ ~InWorkingSet(response[i].id)
               /\ response[i].id \notin updated
               /\ Untouched(response[i].id)
        /\ (/\ pc # "validate"
            /\ ~Rejected(response[i].embedding)
            /\ response[i].embedding # ListE(<<>>))
               => InWorkingSet(response[i].id)

C7_Witness ==
    /\ pc = "idle"
    /\ error = "none"
    /\ full_recluster
    /\ updated # {}
    /\ \E i, j, k \in 1..Len(response) :
           /\ response[i].embedding = StrE("oops")
           /\ response[j].embedding = NullE
           /\ response[k].id \in updated

\* ---------------------------------------------------------------------- C8
ClaimedMinClusterSize(n) ==
    IF n < 10 THEN 2 ELSE Max(5, (n + 99) \div 100)

\* C8: the parameter main() hands to the clusterer for n points is 2 when
\* n < 10 and max(5, ceil(0.01 * n)) otherwise.
C8_MinClusterSizeInMain ==
    pc = "sized_main" => min_cluster_size = ClaimedMinClusterSize(n_points)

\* ---------------------------------------------------------------------- C9
\* C9: a run whose fetch returned and whose working set is empty has updated
\* no row, upserted nothing, computed no summary, not invoked the clusterer,
\* left both tables as they were, and has ended without error.
C9_EmptyWorkingSet ==
    (/\ run_no >= 1
     /\ error # "fetch"
     /\ pc # "validate"
     /\ valid_interactions = <<>>) =>
        /\ pc = "idle"
        /\ error = "none"
        /\ updated = {}
        /\ ~upserted
        /\ cluster_summaries = {}
        /\ ~hdbscan_called
        /\ \A id \in Ids : Untouched(id)
        /\ semantic_clusters = clusters_before

C9_Witness ==
    /\ run_no = 2
    /\ pc = "idle"
    /\ error = "none"
    /\ response # <<>>
    /\ valid_interactions = <<>>
    /\ semantic_clusters # {}

\* --------------------------------------------------------------------- C10
InconsistentLengths ==
    \E i, j \in 1..Len(valid_interactions) :
        Len(Vector(valid_interactions[i].embedding))
            # Len(Vector(valid_interactions[j].embedding))

\* C10: a run whose clustering raised has ended in error with no row updated,
\* nothing upserted and both tables as they were; vectors of different
\* lengths make the clustering raise; and every write of a run comes after
\* the clusterer returned its labels.
C10_ClusterFailureWritesNothing ==
    /\ error = "cluster" =>
           /\ pc = "idle"
           /\ updated = {}
           /\ ~upserted
           /\ \A id \in Ids : Untouched(id)
           /\ semantic_clusters = clusters_before
    /\ (hdbscan_called /\ InconsistentLengths) => error = "cluster"
    /\ (updated # {} \/ upserted) =>
           /\ hdbscan_called
           /\ error # "cluster"
           /\ Len(labels) = Len(valid_interactions)

C10_Witness ==
    /\ error = "cluster"
    /\ InconsistentLengths
    /\ run_no = 2
    /\ \E id \in Ids : before[id].cluster_id # None

====
